---- MODULE Spec2Model ----
(***************************************************************************)
(* Rules engine of the 9x9 battle game (src/battle_game.py): the board,   *)
(* the two players' soldier formations (origin + 3x3 mask), the kings,    *)
(* the selection and the turn, driven by the two input handlers           *)
(* handle_click and move_selected_piece.                                   *)
(*                                                                         *)
(* Board symbols are the source's integers: 0 empty, 1 / 2 soldier of     *)
(* player 1 / 2, 3 / 4 king of player 1 / 2.  players is indexed by the   *)
(* player number 1..2 (the source indexes its list by current_player-1).  *)
(***************************************************************************)
EXTENDS Integers, Naturals, Sequences, FiniteSets, TLC

VARIABLES board, players, hidden_king, selected_piece, selected_is_king,
          current_player, log_messages, outcome, nmoves, event,
          pc, stage, key, before

vars == <<board, players, hidden_king, selected_piece, selected_is_king,
          current_player, log_messages, outcome, nmoves, event,
          pc, stage, key, before>>

\* log_messages is the last message logged; nmoves counts the completed moves
\* and event records the kind of the last input handled ("click" or "move"):
\* both are observers of the run, the handlers never read them.
\*
\* pc, stage, key and before belong to game_loop (specification SpecLoop):
\* pc is the loop's position ("draw" at its top, "events" inside the for over
\* pygame.event.get()), stage the position inside a move_selected_piece call
\* that commits a move, key that call's direction argument, and before the
\* values the call found on entry.  Specification Spec takes each handler
\* call as one step and leaves the four as Init sets them.
loop == <<pc, stage, key, before>>

\* everything the game rules read or write
game == <<board, players, hidden_king, selected_piece, selected_is_king,
          current_player, outcome>>

----------------------------------------------------------------------------
\* Bounds of the exploration
MaxMoves == 3

\* Program constants
board_size == 9
BlockSize == 3

None == <<>>

\* the game outcome: in progress, or won by a player
InProgress == <<"InProgress">>
Won(p) == <<"Won", p>>

Rows == 0 .. (board_size - 1)
Cells == Rows \X Rows
Rel == (0 .. (BlockSize - 1)) \X (0 .. (BlockSize - 1))
Players == {1, 2}

\* the four key bindings of game_loop: w, s, a, d
Directions == {<< -1, 0 >>, << 1, 0 >>, << 0, -1 >>, << 0, 1 >>}

Other(p) == IF p = 1 THEN 2 ELSE 1

Add(a, b) == << a[1] + b[1], a[2] + b[2] >>
Sub(a, b) == << a[1] - b[1], a[2] - b[2] >>

\* cells of the 3x3 slice board[x:x+3, y:y+3]
Window(o) == { c \in Cells : Sub(c, o) \in Rel }

Max(a, b) == IF a >= b THEN a ELSE b
Min(a, b) == IF a <= b THEN a ELSE b

----------------------------------------------------------------------------
\* (mutant: the second mask built without its "* 2", so filled with 1)
NewPlayersSameMask(s1, s2, k1, k2) ==
    [p \in Players |->
        [soldiers    |-> IF p = 1 THEN s1 ELSE s2,
         king        |-> IF p = 1 THEN k1 ELSE k2,
         symbol      |-> p,
         king_symbol |-> p + 2,
         mask        |-> [r \in Rel |-> 1]]]

\* __init__: the players list (soldiers = formation origin, king, symbols, mask)
NewPlayers(s1, s2, k1, k2) ==
    [p \in Players |->
        [soldiers    |-> IF p = 1 THEN s1 ELSE s2,
         king        |-> IF p = 1 THEN k1 ELSE k2,
         symbol      |-> p,
         king_symbol |-> p + 2,
         mask        |-> [r \in Rel |-> p]]]

\* place_pieces: for each player in list order, write the mask into the 3x3
\* slice at the formation origin, then the king symbol at the king cell
PlaceOne(b, pl) ==
    [c \in Cells |->
        IF c = pl.king THEN pl.king_symbol
        ELSE IF c \in Window(pl.soldiers) THEN pl.mask[Sub(c, pl.soldiers)]
        ELSE b[c]]

place_pieces(pls) == PlaceOne(PlaceOne([c \in Cells |-> 0], pls[1]), pls[2])

\* The state built by the constructor
InitialPlacement ==
    /\ players = NewPlayers(<<1, 1>>, <<5, 5>>, <<0, 0>>, <<8, 8>>)
    /\ board = place_pieces(players)
    /\ hidden_king = [p \in Players |-> players[p].king]
    /\ selected_piece = None
    /\ current_player = 1
    /\ selected_is_king = FALSE
    /\ log_messages = "none"
    /\ outcome = InProgress

\* Positions of the running game from which the exploration also starts.
\* Each is reached from InitialPlacement by the accepted moves listed (keys
\* w, s, a, d = up, down, left, right; F = formation, K = king), the two
\* players alternating, player 1 first, and player 1 is to move in each.
MidGame(s1, s2, k1, k2, mask2, lastClickKing) ==
    /\ players = [NewPlayers(s1, s2, <<0, 0>>, <<8, 8>>) EXCEPT ![2].mask = mask2]
    /\ hidden_king = [p \in Players |-> IF p = 1 THEN k1 ELSE k2]
    /\ board = [c \in Cells |->
                  IF c = k1 THEN 3
                  ELSE IF c = k2 THEN 4
                  ELSE IF c \in Window(s1) THEN 1
                  ELSE IF c \in Window(s2) THEN mask2[Sub(c, s2)]
                  ELSE 0]
    /\ selected_piece = None
    /\ current_player = 1
    /\ selected_is_king = lastClickKing
    /\ log_messages = "next_turn"
    /\ outcome = InProgress

AllAlive2 == [r \in Rel |-> 2]

\* player 1: K d x8, K s x7 (king along row 0 and column 8 to (7,8));
\* player 2: F w, F s, ..., F w (15 moves, formation ends at (4,5))
KingsAdjacent ==
    MidGame(<<1, 1>>, <<4, 5>>, <<7, 8>>, <<8, 8>>, AllAlive2, FALSE)

\* player 1: F s, F d, F d, F d (formation to (2,4));
\* player 2: K w x4 (king up column 8 to (4,8))
FormationsClose ==
    MidGame(<<2, 4>>, <<5, 5>>, <<0, 0>>, <<4, 8>>, AllAlive2, TRUE)

\* player 1: F s, F d x4, F s, F s (formation to (4,5); the last two moves
\* capture rows 0 and 1 of player 2's formation);
\* player 2: K w, K s, K w, K s, K w, K s, K w (king ends at (7,8))
LastRow ==
    MidGame(<<4, 5>>, <<5, 5>>, <<0, 0>>, <<7, 8>>,
            [r \in Rel |-> IF r[1] = 2 THEN 2 ELSE 0], TRUE)

\* LastRow, then player 1: F a (formation to (4,4)); player 2: K w (king
\* to (6,8), beside the dead cells (5,7) and (6,7) of its own formation)
KingBeside ==
    MidGame(<<4, 4>>, <<5, 5>>, <<0, 0>>, <<6, 8>>,
            [r \in Rel |-> IF r[1] = 2 THEN 2 ELSE 0], TRUE)

\* KingsAdjacent, then player 1: K w, K a (king to (6,8), then onto player
\* 2's soldier at (6,7)); player 2: K a, K d (king to (8,7) and back)
KingAmongSoldiers ==
    MidGame(<<1, 1>>, <<4, 5>>, <<6, 7>>, <<8, 8>>, AllAlive2, TRUE)

Init ==
    /\ \/ InitialPlacement \/ KingsAdjacent \/ FormationsClose \/ LastRow
       \/ KingBeside \/ KingAmongSoldiers
    /\ nmoves = 0
    /\ event = IF log_messages = "none" THEN "none" ELSE "move"
    /\ pc = "draw" /\ stage = "idle" /\ key = None /\ before = None


----------------------------------------------------------------------------
\* (mutant: the win branch logs the winner but the event loop keeps running)
RunningAfterWin == TRUE

\* The process is alive until the win branch calls pygame.quit(); exit()
Running == outcome = InProgress

\* (mutant: a click on a soldier selects the clicked cell, not the formation)
handle_click_clicked_cell(x, y) ==
    /\ Running
    /\ event' = "click"
    /\ IF board[<<x, y>>] \in {current_player, current_player + 2}
       THEN /\ selected_piece' = <<x, y>>
            /\ selected_is_king' = (board[<<x, y>>] = current_player + 2)
            /\ log_messages' = IF board[<<x, y>>] = current_player
                               THEN "selected_soldiers" ELSE "selected_king"
       ELSE /\ log_messages' = "invalid_selection"
            /\ UNCHANGED <<selected_piece, selected_is_king>>
    /\ UNCHANGED <<board, players, hidden_king, current_player, outcome, nmoves>>

\* (mutant: the ownership tests forget whose turn it is)
handle_click_any_turn(x, y) ==
    /\ Running
    /\ event' = "click"
    /\ IF board[<<x, y>>] \in {1, 2}
       THEN /\ selected_piece' = players[board[<<x, y>>]].soldiers
            /\ selected_is_king' = FALSE
            /\ log_messages' = "selected_soldiers"
       ELSE IF board[<<x, y>>] \in {3, 4}
       THEN /\ selected_piece' = <<x, y>>
            /\ selected_is_king' = TRUE
            /\ log_messages' = "selected_king"
       ELSE /\ log_messages' = "invalid_selection"
            /\ UNCHANGED <<selected_piece, selected_is_king>>
    /\ UNCHANGED <<board, players, hidden_king, current_player, outcome, nmoves>>

\* handle_click(pos), with (x, y) the clicked cell
handle_click(x, y) ==
    /\ Running
    /\ event' = "click"
    /\ IF board[<<x, y>>] \in {1, 3} /\ current_player = 1
       THEN IF board[<<x, y>>] = 1
            THEN /\ selected_piece' = players[1].soldiers
                 /\ selected_is_king' = FALSE
                 /\ log_messages' = "selected_soldiers"
            ELSE /\ selected_piece' = <<x, y>>
                 /\ selected_is_king' = TRUE
                 /\ log_messages' = "selected_king"
       ELSE IF board[<<x, y>>] \in {2, 4} /\ current_player = 2
       THEN IF board[<<x, y>>] = 2
            THEN /\ selected_piece' = players[2].soldiers
                 /\ selected_is_king' = FALSE
                 /\ log_messages' = "selected_soldiers"
            ELSE /\ selected_piece' = <<x, y>>
                 /\ selected_is_king' = TRUE
                 /\ log_messages' = "selected_king"
       ELSE /\ log_messages' = "invalid_selection"
            /\ UNCHANGED <<selected_piece, selected_is_king>>
    /\ UNCHANGED <<board, players, hidden_king, current_player, outcome, nmoves>>

----------------------------------------------------------------------------
\* move_selected_piece, king branch (selected_is_king)

\* destination symbols the king branch accepts: the literal list [0, 2, 4]
KingDestOK(v) == v \in {0, 2, 4}

\* (mutant: landing on a soldier of player 2 also ends the game)
KingWinsOnSoldier(v) == v \in {2, 4}

\* the symbol whose presence at the destination ends the game: the literal 4
KingWins(v) == v = 4

\* self.log("Invalid move: ..."); return
\* (mutant: the rejection also drops the selection)
RejectClearsSelection(message) ==
    /\ log_messages' = message
    /\ selected_piece' = None
    /\ UNCHANGED <<board, players, hidden_king, selected_is_king,
                   current_player, outcome, nmoves>>

Reject(message) ==
    /\ log_messages' = message
    /\ UNCHANGED <<game, nmoves>>

\* (mutant: the selection is kept over the turn switch)
TurnSwitchKeepsSelection ==
    /\ nmoves < MaxMoves
    /\ selected_piece' = selected_piece
    /\ current_player' = (IF current_player = 1 THEN 2 ELSE 1)
    /\ log_messages' = "next_turn"
    /\ nmoves' = nmoves + 1
    /\ UNCHANGED <<selected_is_king, outcome>>

\* (mutant: the turn is not passed on)
TurnSwitchKeepsPlayer ==
    /\ nmoves < MaxMoves
    /\ selected_piece' = None
    /\ current_player' = current_player
    /\ log_messages' = "next_turn"
    /\ nmoves' = nmoves + 1
    /\ UNCHANGED <<selected_is_king, outcome>>

\* tail of move_selected_piece: clear the selection, log, pass the turn
\* (nmoves counts the completed moves; MaxMoves caps the exploration)
TurnSwitch ==
    /\ nmoves < MaxMoves
    /\ selected_piece' = None
    /\ current_player' = (IF current_player = 1 THEN 2 ELSE 1)
    /\ log_messages' = "next_turn"
    /\ nmoves' = nmoves + 1
    /\ UNCHANGED <<selected_is_king, outcome>>

\* what the king branch does with the king at xy on board b, by the message
\* it logs ("moved" for the path that reaches the tail of the handler)
KingMoveOutcome(b, xy, direction) ==
    LET new == Add(xy, direction)
    IN  IF ~(new \in Cells) THEN "out_of_bounds"
        ELSE IF KingDestOK(b[new])
        THEN IF KingWins(b[new]) THEN "wins" ELSE "moved"
        ELSE "occupied"

KingMove(direction) ==
    LET xy == selected_piece
        new == Add(xy, direction)
    IN  IF ~(new \in Cells)
        THEN Reject("out_of_bounds")
        ELSE IF KingDestOK(board[new])
        THEN IF KingWins(board[new])
             THEN /\ log_messages' = "wins"
                  /\ outcome' = Won(current_player)
                  /\ UNCHANGED <<board, players, hidden_king, selected_piece,
                                 selected_is_king, current_player, nmoves>>
             ELSE /\ board' = [board EXCEPT ![new] = board[xy], ![xy] = 0]
                  /\ hidden_king' = [hidden_king EXCEPT ![current_player] = new]
                  /\ UNCHANGED players
                  /\ TurnSwitch
        ELSE Reject("occupied")

----------------------------------------------------------------------------
\* move_selected_piece, formation branch

\* enemy = [2, 4] if current_player == 1 else [1, 3]
enemy(p) == IF p = 1 THEN {2, 4} ELSE {1, 3}

\* (mutant: the upper bounds off by one)
OriginInRangeToSeven(o) ==
    /\ 0 <= o[1] /\ o[1] <= board_size - BlockSize + 1
    /\ 0 <= o[2] /\ o[2] <= board_size - BlockSize + 1

\* (mutant: the lower bounds off by one)
OriginInRangeFromOne(o) ==
    /\ 1 <= o[1] /\ o[1] <= board_size - BlockSize
    /\ 1 <= o[2] /\ o[2] <= board_size - BlockSize

\* 0 <= new_x <= board_size - 3 and 0 <= new_y <= board_size - 3
OriginInRange(o) ==
    /\ 0 <= o[1] /\ o[1] <= board_size - BlockSize
    /\ 0 <= o[2] /\ o[2] <= board_size - BlockSize

\* (mutant: the boxes taken one cell short, as if 2 wide)
OverlapShort(new, enemy_orig) ==
    LET overlap_top    == Max(new[1], enemy_orig[1])
        overlap_left   == Max(new[2], enemy_orig[2])
        overlap_bottom == Min(new[1] + BlockSize - 1, enemy_orig[1] + BlockSize - 1)
        overlap_right  == Min(new[2] + BlockSize - 1, enemy_orig[2] + BlockSize - 1)
    IN  IF overlap_bottom > overlap_top /\ overlap_right > overlap_left
        THEN { c \in Cells : /\ overlap_top <= c[1] /\ c[1] < overlap_bottom
                             /\ overlap_left <= c[2] /\ c[2] < overlap_right }
        ELSE {}

\* the overlap rectangle of the destination window and the enemy's box
Overlap(new, enemy_orig) ==
    LET overlap_top    == Max(new[1], enemy_orig[1])
        overlap_left   == Max(new[2], enemy_orig[2])
        overlap_bottom == Min(new[1] + BlockSize, enemy_orig[1] + BlockSize)
        overlap_right  == Min(new[2] + BlockSize, enemy_orig[2] + BlockSize)
    IN  IF overlap_bottom > overlap_top /\ overlap_right > overlap_left
        THEN { c \in Cells : /\ overlap_top <= c[1] /\ c[1] < overlap_bottom
                             /\ overlap_left <= c[2] /\ c[2] < overlap_right }
        ELSE {}

\* (mutant: the capture ignores the mover's mask)
CapturedAnyMover(mask, new, enemy_mask, enemy_orig, c) ==
    enemy_mask[Sub(c, enemy_orig)] # 0

\* a cell of the overlap is captured when both masks are alive there
Captured(mask, new, enemy_mask, enemy_orig, c) ==
    mask[Sub(c, new)] # 0 /\ enemy_mask[Sub(c, enemy_orig)] # 0

\* (mutant: a met cell that is already dead is flipped back to the enemy's
\* symbol, so a second capture undoes the first)
CaptureMaskToggle(mask, new, enemy_mask, enemy_orig) ==
    [r \in Rel |->
        LET c == Add(enemy_orig, r)
        IN  IF c \in Overlap(new, enemy_orig) /\ mask[Sub(c, new)] # 0
            THEN IF enemy_mask[r] # 0 THEN 0 ELSE 3 - mask[Sub(c, new)]
            ELSE enemy_mask[r]]

\* (mutant: the enemy mask is rebuilt from a full mask instead of a copy:
\* the cells captured in this move are dead, all others alive)
CaptureMaskFresh(mask, new, enemy_mask, enemy_orig) ==
    [r \in Rel |->
        IF /\ Add(enemy_orig, r) \in Overlap(new, enemy_orig)
           /\ Captured(mask, new, enemy_mask, enemy_orig, Add(enemy_orig, r))
        THEN 0
        ELSE IF \E q \in Rel : mask[q] = 1 THEN 2 ELSE 1]

\* (mutant: the overlap test looks at the columns only)
CaptureMaskColumnsOnly(mask, new, enemy_mask, enemy_orig) ==
    [r \in Rel |->
        IF /\ new[2] <= enemy_orig[2] + r[2]
           /\ enemy_orig[2] + r[2] < new[2] + BlockSize
           /\ \E q \in Rel : mask[q] # 0
        THEN 0
        ELSE enemy_mask[r]]

\* the enemy mask after the capture loop
CaptureMask(mask, new, enemy_mask, enemy_orig) ==
    [r \in Rel |->
        IF /\ Add(enemy_orig, r) \in Overlap(new, enemy_orig)
           /\ Captured(mask, new, enemy_mask, enemy_orig, Add(enemy_orig, r))
        THEN 0
        ELSE enemy_mask[r]]

\* (mutant: everything of dest_area is kept under the mover's dead cells)
NewAreaKeepsAll(dest_area, mask, p) ==
    [r \in Rel |-> IF mask[r] # 0 THEN p ELSE dest_area[r]]

\* new_area: the enemy's symbols of dest_area kept, everything else 0, then
\* the mover's symbol wherever its mask is alive
NewArea(dest_area, mask, p) ==
    [r \in Rel |->
        IF mask[r] # 0 THEN p
        ELSE IF dest_area[r] \in enemy(p) THEN dest_area[r]
        ELSE 0]

\* (mutant: the whole old window is cleared, dead cells included)
WriteBoardClearsWindow(b, orig, new, mask, new_area) ==
    [c \in Cells |->
        IF c \in Window(new) THEN new_area[Sub(c, new)]
        ELSE IF c \in Window(orig) THEN 0
        ELSE b[c]]

\* (mutant: the old window is not cleared)
WriteBoardNoClear(b, orig, new, mask, new_area) ==
    [c \in Cells |->
        IF c \in Window(new) THEN new_area[Sub(c, new)] ELSE b[c]]

\* clear the alive cells of the old window, then write new_area
WriteBoard(b, orig, new, mask, new_area) ==
    [c \in Cells |->
        IF c \in Window(new) THEN new_area[Sub(c, new)]
        ELSE IF c \in Window(orig) /\ mask[Sub(c, orig)] # 0 THEN 0
        ELSE b[c]]

\* (mutant: the mover's mask is passed through update_soldier_mask, which
\* kills the mover's cells that land on an enemy symbol)
FormationMoveUpdatesOwnMask(direction) ==
    LET orig        == players[current_player].soldiers
        mask        == players[current_player].mask
        new         == Add(orig, direction)
        enemy_index == Other(current_player)
        enemy_orig  == players[enemy_index].soldiers
        enemy_mask  == players[enemy_index].mask
        dest_area   == [r \in Rel |-> board[Add(new, r)]]
    IN  IF ~OriginInRange(new)
        THEN Reject("out_of_bounds")
        ELSE /\ players' = [players EXCEPT
                   ![enemy_index].mask = CaptureMask(mask, new, enemy_mask, enemy_orig),
                   ![current_player].mask =
                       [r \in Rel |-> IF dest_area[r] \in enemy(current_player)
                                      THEN 0 ELSE mask[r]],
                   ![current_player].soldiers = new]
             /\ board' = WriteBoard(board, orig, new, mask,
                                    NewArea(dest_area, mask, current_player))
             /\ UNCHANGED hidden_king
             /\ TurnSwitch

FormationMove(direction) ==
    LET orig        == players[current_player].soldiers
        mask        == players[current_player].mask
        new         == Add(orig, direction)
        enemy_index == Other(current_player)
        enemy_orig  == players[enemy_index].soldiers
        enemy_mask  == players[enemy_index].mask
        dest_area   == [r \in Rel |-> board[Add(new, r)]]
    IN  IF ~OriginInRange(new)
        THEN Reject("out_of_bounds")
        ELSE /\ players' = [players EXCEPT
                   ![enemy_index].mask = CaptureMask(mask, new, enemy_mask, enemy_orig),
                   ![current_player].soldiers = new]
             /\ board' = WriteBoard(board, orig, new, mask,
                                    NewArea(dest_area, mask, current_player))
             /\ UNCHANGED hidden_king
             /\ TurnSwitch

\* move_selected_piece(direction)
move_selected_piece(direction) ==
    /\ Running
    /\ event' = "move"
    /\ IF selected_piece = None
       THEN UNCHANGED <<game, log_messages, nmoves>>
       ELSE IF selected_is_king
       THEN KingMove(direction)
       ELSE FormationMove(direction)

Click == \E x \in Rows, y \in Rows : handle_click(x, y)
Move  == \E direction \in Directions : move_selected_piece(direction)

Next ==
    \/ Click /\ UNCHANGED loop
    \/ Move /\ UNCHANGED loop

Spec == Init /\ [][Next]_vars

----------------------------------------------------------------------------
\* game_loop: draw_board at the top of each pass, then the handlers for the
\* events of pygame.event.get(), one after the other, in the same thread.
\* (start_battle_game of integrated_game.py constructs the game and runs this
\* loop in one thread of its own; no other thread holds the game object.)

\* (mutant: the screen is redrawn from a thread of its own, at any moment)
DrawEnabledAnyTime == TRUE

\* draw_board is called at the top of the while body only
DrawEnabled == pc = "draw" /\ stage = "idle"

\* what draw_board and the claims read of the game
View == <<board, players, current_player>>

Draw ==
    /\ Running
    /\ DrawEnabled
    /\ pc' = "events"
    /\ event' = "draw"
    /\ UNCHANGED <<game, log_messages, nmoves, stage, key, before>>

\* the for over the polled events is exhausted: back to the top
EndOfEvents ==
    /\ Running
    /\ pc = "events" /\ stage = "idle"
    /\ pc' = "draw"
    /\ UNCHANGED <<game, log_messages, nmoves, event, stage, key, before>>

\* MOUSEBUTTONDOWN
ClickEvent ==
    /\ pc = "events" /\ stage = "idle"
    /\ Click
    /\ UNCHANGED loop

\* the call move_selected_piece(d) reaches the writes of an accepted move
Commits(d) ==
    /\ selected_piece # None
    /\ IF selected_is_king
       THEN LET new == Add(selected_piece, d)
            IN  /\ new \in Cells
                /\ KingDestOK(board[new])
                /\ ~KingWins(board[new])
       ELSE OriginInRange(Add(players[current_player].soldiers, d))

\* KEYDOWN whose call returns without committing a move (no selection, a
\* rejection, or the win): it writes nothing or a single field
MoveAtOnce(d) ==
    /\ pc = "events" /\ stage = "idle"
    /\ ~Commits(d)
    /\ move_selected_piece(d)
    /\ UNCHANGED loop

\* KEYDOWN whose call commits a move: entry, up to the first write
BeginMove(d) ==
    /\ Running
    /\ pc = "events" /\ stage = "idle"
    /\ Commits(d)
    /\ nmoves < MaxMoves
    /\ key' = d
    /\ before' = <<board, players, current_player,
                   selected_piece, selected_is_king>>
    /\ stage' = "entered"
    /\ event' = "move"
    /\ UNCHANGED <<game, log_messages, nmoves, pc>>

\* king branch, lines 159-160: the two board writes
KingWriteBoard ==
    /\ stage = "entered" /\ selected_is_king
    /\ board' = [board EXCEPT ![Add(selected_piece, key)] = board[selected_piece],
                              ![selected_piece] = 0]
    /\ stage' = "king_written"
    /\ UNCHANGED <<players, hidden_king, selected_piece, selected_is_king,
                   current_player, outcome, log_messages, nmoves, event,
                   pc, key, before>>

\* king branch, line 161
KingRecord ==
    /\ stage = "king_written"
    /\ hidden_king' = [hidden_king EXCEPT
                          ![current_player] = Add(selected_piece, key)]
    /\ stage' = "placed"
    /\ UNCHANGED <<board, players, selected_piece, selected_is_king,
                   current_player, outcome, log_messages, nmoves, event,
                   pc, key, before>>

\* formation branch, line 223: the enemy mask after the capture loop
SaveEnemyMask ==
    /\ stage = "entered" /\ ~selected_is_king
    /\ LET enemy_index == Other(current_player)
       IN  players' = [players EXCEPT ![enemy_index].mask =
                          CaptureMask(players[current_player].mask,
                                      Add(players[current_player].soldiers, key),
                                      players[enemy_index].mask,
                                      players[enemy_index].soldiers)]
    /\ stage' = "mask_saved"
    /\ UNCHANGED <<board, hidden_king, selected_piece, selected_is_king,
                   current_player, outcome, log_messages, nmoves, event,
                   pc, key, before>>

\* formation branch, lines 225-239: new_area from the copy of the destination
\* window (the board has not been written since the copy), the old window
\* cleared, new_area written
WriteWindow ==
    /\ stage = "mask_saved"
    /\ LET orig == players[current_player].soldiers
           mask == players[current_player].mask
           new  == Add(orig, key)
           dest_area == [r \in Rel |-> board[Add(new, r)]]
       IN  board' = WriteBoard(board, orig, new, mask,
                               NewArea(dest_area, mask, current_player))
    /\ stage' = "board_written"
    /\ UNCHANGED <<players, hidden_king, selected_piece, selected_is_king,
                   current_player, outcome, log_messages, nmoves, event,
                   pc, key, before>>

\* formation branch, line 241
SetOrigin ==
    /\ stage = "board_written"
    /\ players' = [players EXCEPT ![current_player].soldiers = Add(@, key)]
    /\ stage' = "placed"
    /\ UNCHANGED <<board, hidden_king, selected_piece, selected_is_king,
                   current_player, outcome, log_messages, nmoves, event,
                   pc, key, before>>

\* lines 242-245, and the return to the for loop
Finish ==
    /\ stage = "placed"
    /\ TurnSwitch
    /\ stage' = "idle" /\ key' = None /\ before' = None
    /\ UNCHANGED <<board, players, hidden_king, event, pc>>

NextLoop ==
    \/ Draw
    \/ EndOfEvents
    \/ ClickEvent
    \/ \E d \in Directions : MoveAtOnce(d)
    \/ \E d \in Directions : BeginMove(d)
    \/ KingWriteBoard
    \/ KingRecord
    \/ SaveEnemyMask
    \/ WriteWindow
    \/ SetOrigin
    \/ Finish

SpecLoop == Init /\ [][NextLoop]_vars

----------------------------------------------------------------------------
TypeOK ==
    /\ board \in [Cells -> 0 .. 4]
    /\ \A p \in Players : players[p].soldiers \in Cells
    /\ \A p \in Players : players[p].mask \in [Rel -> {0, p}]
    /\ current_player \in Players
    /\ selected_piece \in Cells \cup {None}
    /\ selected_is_king \in BOOLEAN
    /\ nmoves \in 0 .. MaxMoves
    /\ pc \in {"draw", "events"}
    /\ stage \in {"idle", "entered", "king_written", "mask_saved",
                  "board_written", "placed"}
    /\ key \in Directions \cup {None}

----------------------------------------------------------------------------
\* Vocabulary of the claims
Soldier(p) == p
King(p) == p + 2
Empty == 0

Alive(p, r) == players[p].mask[r] # 0
count_alive(p) == Cardinality({ r \in Rel : Alive(p, r) })

\* the state the claims call "all state": board, masks, origins, king
\* positions, current_player, selection
state == <<board, players, hidden_king, current_player, selected_piece>>

\* a move event with the king / the formation of the current player selected
KingMoveEvent(d) ==
    /\ event' = "move"
    /\ Running /\ selected_piece # None /\ selected_is_king
    /\ move_selected_piece(d)

FormationMoveEvent(d) ==
    /\ event' = "move"
    /\ Running /\ selected_piece # None /\ ~selected_is_king
    /\ move_selected_piece(d)

\* a completed move changes the board, an origin or a king position
Completed ==
    board' # board \/ players' # players \/ hidden_king' # hidden_king

----------------------------------------------------------------------------
\* C1: in every reachable state, for each player p and each (i,j), the board
\* cell at origin_p + (i,j) holds Soldier(p) iff mask_p[i][j] is alive.
\* Fails: a king that moves onto a soldier cell replaces the soldier on the
\* board and leaves the mask cell alive.
C1_BoardMatchesMask ==
    \A p \in Players : \A r \in Rel :
        (board[Add(players[p].soldiers, r)] = Soldier(p)) <=> Alive(p, r)

\* C2: while the game is in progress the board holds exactly one King(p) cell
\* for each player p, at hidden_king[p].
\* Fails: a formation move rewrites its whole destination window and erases
\* the mover's own king (or overwrites the enemy's) without ending the game.
C2_OneKingEach ==
    Running =>
        \A p \in Players :
            { c \in Cells : board[c] = King(p) } = { hidden_king[p] }

\* C3: for either player p, a king move of p whose in-bounds destination
\* holds the opponent's King ends the game with p as the winner.
\* Fails for p = 2: the destination test is the literal [0, 2, 4], so player
\* 2's king is refused the cell of King(1).
C3_KingCaptureWins ==
    [][\A d \in Directions :
          (/\ KingMoveEvent(d)
           /\ Add(selected_piece, d) \in Cells
           /\ board[Add(selected_piece, d)] = King(Other(current_player)))
          => outcome' = Won(current_player)]_vars

\* C4: for either player p, a king move onto an in-bounds cell holding a
\* friendly unit is rejected as Occupied and changes nothing.
\* Fails for p = 2: Soldier(2) is in the accepted list [0, 2, 4].
C4_FriendlyCellRejected ==
    [][\A d \in Directions :
          (/\ KingMoveEvent(d)
           /\ Add(selected_piece, d) \in Cells
           /\ board[Add(selected_piece, d)]
                 \in {Soldier(current_player), King(current_player)})
          => (log_messages' = "occupied" /\ UNCHANGED state)]_vars

\* C5: for either player p, a king move onto an in-bounds cell that is Empty
\* or holds the opponent's Soldier is accepted: the destination then holds
\* King(p), the source is Empty, hidden_king[p] is the destination and the
\* turn passes to the opponent.
\* Fails for p = 2: Soldier(1) is not in the accepted list [0, 2, 4].
C5_KingMoveAccepted ==
    [][\A d \in Directions :
          (/\ KingMoveEvent(d)
           /\ Add(selected_piece, d) \in Cells
           /\ board[Add(selected_piece, d)]
                 \in {Empty, Soldier(Other(current_player))})
          => (/\ board'[Add(selected_piece, d)] = King(current_player)
              /\ board'[selected_piece] = Empty
              /\ hidden_king'[current_player] = Add(selected_piece, d)
              /\ current_player' = Other(current_player))]_vars

\* C6: once the outcome is Won(p) it never changes again, and nothing else
\* changes either: no later select or move has any effect.
C6_WonIsTerminal ==
    [][outcome # InProgress => (outcome' = outcome /\ UNCHANGED state)]_vars

C6_Witness ==
    /\ outcome = Won(1)
    /\ hidden_king[1] = <<7, 8>> /\ board[<<8, 8>>] = King(2)

\* C7: the outcome changes only in a king move whose destination holds the
\* enemy King (the mover wins); no select and no formation move ends the
\* game, whatever it does to a mask, so a player with no alive mask cell
\* left has not thereby lost.
C7_OnlyKingCaptureEnds ==
    [][outcome' # outcome =>
          /\ outcome = InProgress
          /\ outcome' = Won(current_player)
          /\ UNCHANGED players
          /\ \E d \in Directions :
                /\ KingMoveEvent(d)
                /\ Add(selected_piece, d) \in Cells
                /\ board[Add(selected_piece, d)] = King(Other(current_player))]_vars

C7_Witness ==
    /\ count_alive(2) = 0
    /\ outcome = InProgress
    /\ current_player = 2

\* C8: each of the moves the rules call invalid leaves the board, both
\* masks, both origins, the king positions, current_player (and the
\* selection) unchanged: a move with no selection, a king or formation move
\* out of bounds, and a king move onto a friendly cell.
\* Fails in the last case for player 2, whose king is accepted onto a cell
\* of Soldier(2) (the defect of C4); the moves the code does reject change
\* nothing but the log.
C8_InvalidMoveChangesNothing ==
    [][\A d \in Directions :
          /\ (event' = "move" /\ selected_piece = None /\ move_selected_piece(d))
                => UNCHANGED state
          /\ (KingMoveEvent(d) /\ Add(selected_piece, d) \notin Cells)
                => UNCHANGED state
          /\ (/\ FormationMoveEvent(d)
              /\ Add(players[current_player].soldiers, d) \notin (0 .. 6) \X (0 .. 6))
                => UNCHANGED state
          /\ (/\ KingMoveEvent(d)
              /\ Add(selected_piece, d) \in Cells
              /\ board[Add(selected_piece, d)]
                    \in {Soldier(current_player), King(current_player)})
                => UNCHANGED state]_vars

\* C9: a formation move from origin O in direction d is accepted (the origin
\* becomes O + d and the turn passes) iff 0 <= O.row + d.row <= 6 and
\* 0 <= O.col + d.col <= 6, whatever the destination window holds.
C9_FormationMoveLegalIffInRange ==
    [][\A d \in Directions :
          FormationMoveEvent(d) =>
             LET O == players[current_player].soldiers
                 N == Add(O, d)
             IN  IF 0 <= N[1] /\ N[1] <= 6 /\ 0 <= N[2] /\ N[2] <= 6
                 THEN /\ players'[current_player].soldiers = N
                      /\ current_player' = Other(current_player)
                      /\ log_messages' = "next_turn"
                 ELSE /\ players' = players
                      /\ current_player' = current_player
                      /\ log_messages' = "out_of_bounds"]_vars

\* an accepted formation move whose destination window held the mover's king
C9_Witness ==
    /\ players[1].soldiers = <<0, 0>>
    /\ hidden_king[1] = <<0, 0>>
    /\ board[<<0, 0>>] = Soldier(1)
    /\ current_player = 2

\* C10: every completed move clears the selection and flips current_player;
\* current_player changes in no other step (not in a select, not in a
\* rejected move), so it changes exactly once per completed move.
C10_TurnFlipsExactlyOnCompletedMove ==
    [][/\ Completed => (selected_piece' = None
                        /\ current_player' = Other(current_player))
       /\ current_player' # current_player =>
             (Completed /\ nmoves' = nmoves + 1 /\ event' = "move")
       /\ log_messages' \in {"out_of_bounds", "occupied"} =>
             current_player' = current_player]_vars

C10_Witness ==
    /\ nmoves = 2 /\ current_player = 1 /\ selected_piece = None
    /\ hidden_king[1] # <<0, 0>> /\ players[2].soldiers # <<5, 5>>
    /\ players[1].soldiers = <<1, 1>>

\* C11: a completed formation move of player 1 leaves current_player = 2 and
\* no selection; a select on a cell owned by the player who is not to move
\* is rejected and changes nothing; a move issued with no selection changes
\* nothing; and every completed move translates only the formation or the
\* king of current_player (the other player's origin and king position stay).
C11_OnlyCurrentPlayerMoves ==
    [][/\ (current_player = 1 /\ players'[1].soldiers # players[1].soldiers)
             => (current_player' = 2 /\ selected_piece' = None)
       /\ event' = "click" =>
             \/ (log_messages' = "invalid_selection" /\ UNCHANGED state)
             \/ \A c \in Cells :
                   ~(/\ board[c] \in {Soldier(Other(current_player)),
                                      King(Other(current_player))}
                     /\ handle_click(c[1], c[2]))
       /\ (event' = "move" /\ selected_piece = None) => UNCHANGED state
       /\ Completed =>
             /\ players'[Other(current_player)].soldiers
                   = players[Other(current_player)].soldiers
             /\ hidden_king'[Other(current_player)]
                   = hidden_king[Other(current_player)]
             /\ \/ players'[current_player].soldiers
                      # players[current_player].soldiers
                \/ /\ hidden_king'[current_player] # hidden_king[current_player]
                   /\ board[hidden_king[current_player]] = King(current_player)
                   /\ board'[hidden_king'[current_player]] = King(current_player)]_vars

\* player 1 has moved its formation and player 2 has clicked a cell it may
\* not select
C11_Witness ==
    /\ nmoves = 1 /\ current_player = 2
    /\ players[1].soldiers = <<1, 2>>
    /\ selected_piece = None
    /\ log_messages = "invalid_selection"

\* The step of C12: player 1's all-alive formation arrives at origin (4,4)
\* while player 2's formation stays at (5,5), the cells of player 2's mask
\* outside the 2x2 block (0..1, 0..1) being alive before the step (as they
\* are on every path of Down and Right moves from (1,1)).
BlockNearOrigin == { r \in Rel : r[1] <= 1 /\ r[2] <= 1 }

ArrivesAt44 ==
    /\ players'[1].soldiers = <<4, 4>> /\ players[1].soldiers # <<4, 4>>
    /\ players[2].soldiers = <<5, 5>> /\ players'[2].soldiers = <<5, 5>>
    /\ \A r \in Rel : players[1].mask[r] # 0
    /\ \A r \in Rel \ BlockNearOrigin : players[2].mask[r] # 0

\* C12 as stated: when player 1's formation reaches origin (4,4), player 2's
\* mask cell (0,0) is dead and all its other cells are alive.
\* Fails: the windows at (4,4) and (5,5) share the four board cells
\* (5..6, 5..6), not one.
C12_OnlyCornerCaptured ==
    [][ArrivesAt44 =>
          \A r \in Rel : (players'[2].mask[r] = 0) <=> (r = <<0, 0>>)]_vars

\* C12 amended: player 2's mask cells (0,0), (0,1), (1,0), (1,1) are dead
\* and its five other cells are alive.
C12_OverlapBlockCaptured ==
    [][ArrivesAt44 =>
          \A r \in Rel : (players'[2].mask[r] = 0) <=> (r \in BlockNearOrigin)]_vars

C12_Witness ==
    /\ players[1].soldiers = <<4, 4>> /\ players[2].soldiers = <<5, 5>>
    /\ current_player = 2 /\ nmoves = 3
    /\ \A r \in Rel : players[1].mask[r] # 0
    /\ \A r \in Rel : (players[2].mask[r] = 0) <=> (r \in BlockNearOrigin)
    /\ board[<<6, 6>>] = Soldier(1) /\ board[<<7, 7>>] = Soldier(2)

\* C13: when the mover's destination window shares no row or no column with
\* the enemy's 3x3 box, the formation move leaves the enemy mask as it was.
C13_NoOverlapNoCapture ==
    [][\A d \in Directions :
          FormationMoveEvent(d) =>
             LET N == Add(players[current_player].soldiers, d)
                 E == players[Other(current_player)].soldiers
             IN  (\/ N[1] + 3 <= E[1] \/ E[1] + 3 <= N[1]
                  \/ N[2] + 3 <= E[2] \/ E[2] + 3 <= N[2])
                 => players'[Other(current_player)].mask
                       = players[Other(current_player)].mask]_vars

\* player 1 has moved to (2,5): its window shares columns 5..7 with player
\* 2's box at (5,5) but no row, and player 2's mask is intact
C13_Witness ==
    /\ players[1].soldiers = <<2, 5>> /\ players[2].soldiers = <<5, 5>>
    /\ nmoves = 1 /\ current_player = 2
    /\ \A r \in Rel : players[2].mask[r] # 0

\* what a select on cell c must do
SelectEffect(c) ==
    IF board[c] = Soldier(current_player)
    THEN /\ selected_piece' = players[current_player].soldiers
         /\ ~selected_is_king'
    ELSE IF board[c] = King(current_player)
    THEN /\ selected_piece' = c
         /\ selected_is_king'
    ELSE /\ selected_piece' = selected_piece
         /\ selected_is_king' = selected_is_king
         /\ log_messages' = "invalid_selection"

\* C14: a select on a cell holding the current player's Soldier selects that
\* player's formation, on its King selects that king at the clicked cell;
\* a select on any other cell (Empty or the other player's) leaves the
\* previous selection in place; no select changes the board, the masks, the
\* origins, the king positions or current_player.
\* In every state of the running game and for every cell c, handle_click on
\* c can take a step, and no step it can take differs from SelectEffect(c)
\* or changes one of those variables.
C14_SelectOwnPieceOnly ==
    Running =>
        \A c \in Cells :
            /\ ENABLED handle_click(c[1], c[2])
            /\ ~ENABLED (/\ handle_click(c[1], c[2])
                         /\ ~(/\ SelectEffect(c)
                              /\ UNCHANGED <<board, players, hidden_king,
                                             current_player>>))

\* player 2 holds its king selected and has then clicked a cell it may not
\* select
C14_Witness ==
    /\ current_player = 2
    /\ selected_piece = hidden_king[2] /\ selected_is_king
    /\ log_messages = "invalid_selection"

\* the enemy mask cells that the capture step of a formation move to N meets:
\* those whose board cell is covered by an alive cell of the mover's mask
Met(N) ==
    LET M == players[current_player].mask
        E == players[Other(current_player)].soldiers
    IN  { r \in Rel : /\ Add(E, r) \in Window(N)
                      /\ M[Sub(Add(E, r), N)] # 0 }

\* C15: killing a mask cell is idempotent. On every accepted formation move
\* a met cell that is already dead stays dead; when every met cell is already
\* dead the enemy mask is unchanged; and running the capture step again on
\* the resulting mask gives that mask.
C15_KillIdempotent ==
    [][\A d \in Directions :
          LET N == Add(players[current_player].soldiers, d)
              E == players[Other(current_player)].soldiers
              M == players[current_player].mask
              X == players[Other(current_player)].mask
              X2 == players'[Other(current_player)].mask
          IN  (FormationMoveEvent(d) /\ OriginInRange(N)) =>
                 /\ \A r \in Met(N) : X[r] = 0 => X2[r] = 0
                 /\ (\A r \in Met(N) : X[r] = 0) => X2 = X
                 /\ CaptureMask(M, N, X2, E) = X2]_vars

\* player 1 has moved its formation from (4,5) to (4,4) over the cells of
\* rows 0 and 1 of player 2's formation, which were already dead
C15_Witness ==
    /\ nmoves = 1 /\ current_player = 2
    /\ players[1].soldiers = <<4, 4>> /\ players[2].soldiers = <<5, 5>>
    /\ \A r \in Rel : (players[2].mask[r] = 0) <=> (r[1] < 2)

C19_CaptureExactly ==
    [][\A d \in Directions :
          LET N == Add(players[current_player].soldiers, d)
              X == players[Other(current_player)].mask
              X2 == players'[Other(current_player)].mask
          IN  (FormationMoveEvent(d) /\ OriginInRange(N)) =>
                 \A r \in Rel : (X2[r] = 0) <=> (X[r] = 0 \/ r \in Met(N))]_vars

\* player 2, rows 0 and 1 of its mask dead, has moved its formation from
\* (5,5) up onto player 1's at (4,5): only row 2 of player 1's mask, under
\* player 2's alive row, is dead
C19_Witness ==
    /\ nmoves = 2 /\ current_player = 1
    /\ players[1].soldiers = <<4, 5>> /\ players[2].soldiers = <<4, 5>>
    /\ \A r \in Rel : (players[2].mask[r] = 0) <=> (r[1] < 2)
    /\ \A r \in Rel : (players[1].mask[r] = 0) <=> (r[1] = 2)

\* C20: after an accepted formation move to new origin N, each cell N + (i,j)
\* of the destination window holds Soldier(mover) if the mover's mask M[i][j]
\* is alive, whatever was there before; otherwise it keeps its pre-move
\* content if that was an enemy Soldier or enemy King, and is Empty in every
\* other case.
C20_DestinationWindow ==
    [][\A d \in Directions :
          LET N == Add(players[current_player].soldiers, d)
              M == players[current_player].mask
              opp == Other(current_player)
          IN  (FormationMoveEvent(d) /\ OriginInRange(N)) =>
                 \A r \in Rel :
                    board'[Add(N, r)] =
                       IF M[r] # 0 THEN Soldier(current_player)
                       ELSE IF board[Add(N, r)] \in {Soldier(opp), King(opp)}
                       THEN board[Add(N, r)]
                       ELSE Empty]_vars

\* player 2, rows 0 and 1 of its mask dead, has moved its formation from
\* (5,5) down to (6,5): its dead row 0 lies on player 1's soldiers, which
\* stay; its dead row 1 lies on the cells its own soldiers left, now Empty
C20_Witness ==
    /\ nmoves = 2 /\ current_player = 1
    /\ players[1].soldiers = <<4, 5>> /\ players[2].soldiers = <<6, 5>>
    /\ players[2].mask[<<0, 0>>] = 0 /\ players[2].mask[<<1, 0>>] = 0
    /\ board[<<6, 5>>] = Soldier(1)
    /\ board[<<7, 5>>] = Empty
    /\ board[<<8, 5>>] = Soldier(2)

IsKing(v) == v \in {King(1), King(2)}

\* the board cell c holds a soldier of q that is alive in q's mask
AliveSoldierAt(q, c) ==
    /\ board[c] = Soldier(q)
    /\ c \in Window(players[q].soldiers)
    /\ Alive(q, Sub(c, players[q].soldiers))

\* C18 as stated: for each player p, every cell of p's formation window whose
\* mask cell is dead is Empty or holds a Soldier of the opponent that is
\* alive in the opponent's own mask; it never holds a King or a Soldier(p).
\* Fails: a dead cell of a window is an Empty board cell like any other, and
\* a king may walk onto it.
C18_DeadCellsEmptyOrEnemy ==
    \A p \in Players : \A r \in Rel :
        ~Alive(p, r) =>
            LET c == Add(players[p].soldiers, r)
            IN  board[c] = Empty \/ AliveSoldierAt(Other(p), c)

\* C18 amended: such a cell is Empty, or holds a Soldier of the opponent that
\* is alive in the opponent's own mask, or holds a King (of either player);
\* it never holds a Soldier(p).
C18_DeadCellsNoStaleSoldier ==
    \A p \in Players : \A r \in Rel :
        ~Alive(p, r) =>
            LET c == Add(players[p].soldiers, r)
            IN  \/ board[c] = Empty
                \/ AliveSoldierAt(Other(p), c)
                \/ IsKing(board[c])

\* player 2's king stands on (6,7), the dead cell (1,2) of its own formation
C18_Witness ==
    /\ players[2].soldiers = <<5, 5>> /\ ~Alive(2, <<1, 2>>)
    /\ hidden_king[2] = <<6, 7>> /\ board[<<6, 7>>] = King(2)

\* the View a move leaves when all of its effects are applied, from the
\* values b found on entry and the direction d
ViewAfter(b, d) ==
    LET bd == b[1]
        pls == b[2]
        p == b[3]
        sel == b[4]
    IN  IF b[5]
        THEN << [bd EXCEPT ![Add(sel, d)] = bd[sel], ![sel] = 0],
                pls, Other(p) >>
        ELSE LET orig == pls[p].soldiers
                 new == Add(orig, d)
                 mask == pls[p].mask
                 E == pls[Other(p)].soldiers
                 X == pls[Other(p)].mask
             IN  << [c \in Cells |->
                       IF c \in Window(new)
                       THEN IF mask[Sub(c, new)] # 0 THEN Soldier(p)
                            ELSE IF bd[c] \in {Soldier(Other(p)), King(Other(p))}
                            THEN bd[c] ELSE Empty
                       ELSE IF c \in Window(orig) /\ mask[Sub(c, orig)] # 0
                       THEN Empty
                       ELSE bd[c]],
                    [pls EXCEPT
                       ![Other(p)].mask =
                          [r \in Rel |->
                             IF /\ Add(E, r) \in Window(new)
                                /\ mask[Sub(Add(E, r), new)] # 0
                             THEN 0 ELSE X[r]],
                       ![p].soldiers = new],
                    Other(p) >>

\* a move is under way and the View shows some of its effects, not all
PartialMove ==
    /\ before # None
    /\ View # <<before[1], before[2], before[3]>>
    /\ View # ViewAfter(before, key)

\* C17: the rendering step never observes a partially applied move: whenever
\* draw_board reads the game, the board, both masks, both origins and
\* current_player show none or all of the effects of each move.
C17_DrawSeesWholeMoves ==
    [][Draw => ~PartialMove]_vars

\* the writes of a move leave, at the return of the call, exactly the View
\* of the whole move
StagedMoveIsWhole ==
    [][Finish => View' = ViewAfter(before, key)]_vars

\* draw_board has read the board after player 1's formation moved from (2,4)
\* to (3,4) and captured the cells (0,0) and (0,1) of player 2's formation
C17_Witness ==
    /\ event = "draw" /\ pc = "events" /\ stage = "idle"
    /\ nmoves = 1 /\ current_player = 2
    /\ players[1].soldiers = <<3, 4>> /\ players[2].soldiers = <<5, 5>>
    /\ \A r \in Rel : (players[2].mask[r] = 0) <=> (r \in {<<0, 0>>, <<0, 1>>})
    /\ board[<<5, 5>>] = Soldier(1)

\* C21: a move never changes the mover's own mask: after any accepted
\* formation or king move by player p, mask_p is what it was before; only
\* the enemy's mask can lose cells, and only in a formation move.
C21_MoverMaskUnchanged ==
    [][event' = "move" =>
          LET p == current_player
              X == players[Other(p)].mask
              X2 == players'[Other(p)].mask
          IN  /\ players'[p].mask = players[p].mask
              /\ \A r \in Rel : X2[r] = X[r] \/ (X2[r] = 0 /\ X[r] # 0)
              /\ (selected_piece = None \/ selected_is_king) => X2 = X]_vars

\* player 1 has moved its formation from (2,4) to (3,4): cells (0,0) and
\* (0,1) of player 2's mask are dead and player 1's mask is whole
C21_Witness ==
    /\ event = "move" /\ nmoves = 1 /\ current_player = 2
    /\ players[1].soldiers = <<3, 4>> /\ players[2].soldiers = <<5, 5>>
    /\ \A r \in Rel : Alive(1, r)
    /\ ~Alive(2, <<0, 0>>) /\ ~Alive(2, <<0, 1>>) /\ Alive(2, <<0, 2>>)

\* C22: a formation move changes board cells only inside the mover's old
\* alive footprint and the 3x3 destination window: every old alive cell
\* outside the destination window becomes Empty, every other cell outside the
\* destination window is unchanged, and the enemy's origin and both recorded
\* king positions are unchanged.
C22_FormationMoveFrame ==
    [][\A d \in Directions :
          LET p == current_player
              orig == players[p].soldiers
              N == Add(orig, d)
              M == players[p].mask
          IN  (FormationMoveEvent(d) /\ OriginInRange(N)) =>
                 /\ \A c \in Cells \ Window(N) :
                       board'[c] = IF c \in Window(orig) /\ M[Sub(c, orig)] # 0
                                   THEN Empty
                                   ELSE board[c]
                 /\ players'[Other(p)].soldiers = players[Other(p)].soldiers
                 /\ hidden_king' = hidden_king]_vars

\* player 2, rows 0 and 1 of its mask dead, has moved its formation from
\* (5,5) right to (5,6): the old cells (5,5) and (6,5), dead, still hold
\* player 1's soldiers, the old alive cell (7,5) is Empty, and the recorded
\* king position (7,8) is as before
C22_Witness ==
    /\ event = "move" /\ nmoves = 2 /\ current_player = 1
    /\ players[1].soldiers = <<4, 5>> /\ players[2].soldiers = <<5, 6>>
    /\ board[<<5, 5>>] = Soldier(1) /\ board[<<6, 5>>] = Soldier(1)
    /\ board[<<7, 5>>] = Empty
    /\ hidden_king[2] = <<7, 8>>

\* C23: in every reachable state both formation origins satisfy
\* 0 <= row <= 6 and 0 <= col <= 6, so each 3x3 formation window lies
\* entirely on the 9x9 board.
C23_OriginsInRange ==
    \A p \in Players :
        LET o == players[p].soldiers
        IN  /\ 0 <= o[1] /\ o[1] <= 6
            /\ 0 <= o[2] /\ o[2] <= 6
            /\ \A r \in Rel : Add(o, r) \in Cells

\* player 1's formation stands at column 6 and its move further right has
\* been refused
C23_Witness ==
    /\ players[1].soldiers = <<4, 6>>
    /\ current_player = 1 /\ nmoves = 2
    /\ selected_piece = <<4, 6>> /\ ~selected_is_king
    /\ log_messages = "out_of_bounds"

\* the number of board cells of b holding a soldier of p
SoldierCells(b, p) == Cardinality({ c \in Cells : b[c] = Soldier(p) })

\* C24: no move ever increases the number of Soldier(p) cells on the board,
\* for any player p.
\* Fails: a king that steps onto a soldier replaces its symbol and leaves its
\* mask cell alive, and the formation's next move writes a soldier for every
\* alive mask cell.
C24_SoldiersNeverReappear ==
    [][event' = "move" =>
          \A p \in Players :
              SoldierCells(board', p) <= SoldierCells(board, p)]_vars

\* the three outcomes of a move event
MoveRejected == UNCHANGED state /\ outcome' = InProgress

MoveCompleted ==
    /\ board' # board
    /\ selected_piece' = None
    /\ current_player' = Other(current_player)
    /\ outcome' = InProgress

MoveEndsGame == outcome' # InProgress

\* C25: every move event resolves in one step into exactly one of three
\* outcomes: rejected (all state unchanged), completed (board updated,
\* selection None, turn passed to the other player) or game over; no move
\* event ends in a state where the board or a mask has changed but
\* current_player has not flipped and the game is not over.
C25_MoveOutcomes ==
    [][event' = "move" =>
          /\ MoveRejected \/ MoveCompleted \/ MoveEndsGame
          /\ ~(MoveRejected /\ MoveCompleted)
          /\ ~(MoveRejected /\ MoveEndsGame)
          /\ ~(MoveCompleted /\ MoveEndsGame)
          /\ ~(/\ board' # board \/ players' # players
               /\ current_player' = current_player
               /\ outcome' = InProgress)]_vars

\* player 1's king at (0,0) has been refused a move off the board, after a
\* completed move of each player
C25_Witness ==
    /\ event = "move" /\ log_messages = "out_of_bounds"
    /\ nmoves = 2 /\ current_player = 1
    /\ selected_piece = <<0, 0>> /\ selected_is_king
    /\ board[<<0, 0>>] = King(1)

\* C26: masks are monotone: in every transition a mask cell that is dead
\* stays dead, for either player (no select, king move or formation move
\* turns one alive again), so count_alive of each player never increases.
C26_MasksMonotone ==
    [][\/ players' = players
       \/ \A p \in Players :
             /\ \A r \in Rel : players[p].mask[r] = 0 => players'[p].mask[r] = 0
             /\ Cardinality({ r \in Rel : players'[p].mask[r] # 0 })
                   <= count_alive(p)]_vars

\* player 2, rows 0 and 1 of its mask dead, has moved its formation down to
\* (6,5) and player 1 has moved after that: the six cells are still dead
C26_Witness ==
    /\ nmoves = 3 /\ current_player = 2
    /\ players[2].soldiers = <<6, 5>>
    /\ \A r \in Rel : Alive(2, r) <=> r[1] = 2
    /\ count_alive(2) = 3

\* the current player can select cell c and then press a direction that the
\* move handler accepts (a completed move or the win)
CanMoveFrom(c) ==
    \/ /\ board[c] = Soldier(current_player)
       /\ \E d \in Directions :
             OriginInRange(Add(players[current_player].soldiers, d))
    \/ /\ board[c] = King(current_player)
       /\ \E d \in Directions :
             /\ Add(c, d) \in Cells
             /\ KingDestOK(board[Add(c, d)])

\* C27: in every reachable in-progress state the current player has at least
\* one accepted move available.
\* Fails: a formation move that overwrites the enemy king does not end the
\* game, and a player whose king is gone and whose mask is dead has no cell
\* to select.
C27_CurrentPlayerCanMove ==
    Running => \E c \in Cells : CanMoveFrom(c)

\* C28: whenever the selection is not None it refers to a piece of
\* current_player that is still on the board: a selected king position holds
\* King(current_player), and a selected formation is current_player's
\* formation at its current origin (with a soldier of it on the board).
C28_SelectionNotStale ==
    selected_piece # None =>
        IF selected_is_king
        THEN /\ selected_piece \in Cells
             /\ board[selected_piece] = King(current_player)
        ELSE /\ selected_piece = players[current_player].soldiers
             /\ \E r \in Rel :
                   board[Add(selected_piece, r)] = Soldier(current_player)

\* player 2 holds its king at (8,8) selected after a refused move off the
\* board
C28_Witness ==
    /\ current_player = 2 /\ nmoves = 1
    /\ selected_piece = <<8, 8>> /\ selected_is_king
    /\ log_messages = "out_of_bounds"

\* the roles of the two players exchanged in a board symbol and in a board
SwapSymbol(v) ==
    IF v = Empty THEN Empty
    ELSE IF v = Soldier(1) THEN Soldier(2)
    ELSE IF v = Soldier(2) THEN Soldier(1)
    ELSE IF v = King(1) THEN King(2)
    ELSE King(1)

SwapBoard(b) == [c \in Cells |-> SwapSymbol(b[c])]

\* KingMoveOutcome is what the king move of the model does
KingOutcomeAgrees ==
    [][\A d \in Directions :
          KingMoveEvent(d) =>
             LET o == KingMoveOutcome(board, selected_piece, d)
             IN  log_messages' = IF o = "moved" THEN "next_turn" ELSE o]_vars

\* C29: move resolution treats the two players symmetrically; in particular a
\* king move has the same accept / reject / win outcome in a state and in
\* the state with the roles of the two players exchanged (king at the same
\* cell, every board symbol exchanged for the other player's).
\* Fails: the king branch tests the destination against the literals
\* [0, 2, 4] and 4 whoever moves, so the outcome depends on the symbols, not
\* on the roles.
C29_KingOutcomeSymmetric ==
    (Running /\ selected_piece # None /\ selected_is_king) =>
        \A d \in Directions :
            KingMoveOutcome(SwapBoard(board), selected_piece, d)
                = KingMoveOutcome(board, selected_piece, d)

====
